---- MODULE Spec2Model ----
(***************************************************************************)
(* AgentTown: the simulation engine of agent_town_sim (World, Reactor,     *)
(* Agent.choose).  The world is modelled as one record per World object;   *)
(* every method of World is an operator from a world record to the world   *)
(* record(s) it leaves behind, and step() is the sequence StepBegin,       *)
(* Decide (once per agent of the snapshot), ApplyPending (once per agent), *)
(* Upkeep, ordered by pc.                                                  *)
(***************************************************************************)
EXTENDS Integers, Sequences, FiniteSets, TLC

VARIABLES
    tick,             \* World.tick
    agents,           \* World.agents: the dict in insertion order, a sequence of Agent records
    energy_grid,      \* World.energy_grid: cell -> energy
    resource_grid,    \* World.resource_grid: cell -> BOOLEAN
    occupancy,        \* World.occupancy: position -> agent id (partial function)
    reactor,          \* World.reactor: [position, capacity, energy]
    deposit_reports,  \* World.deposit_reports: sequence of <<tick, id, actual, claimed, lie>>
    help_requests,    \* World.help_requests: the dict in insertion order, a sequence of entries
    helper_signals,   \* World.helper_signals: agent id -> tick (partial function)
    aid_request_lifetime,  \* World.aid_request_lifetime (fixed at construction)
    help_signal_duration,  \* World.help_signal_duration (fixed at construction)
    pc,               \* position inside step(): "idle", "decide", "apply", "upkeep"
    snapshot,         \* list(self.agents.values()) of the running step(), as agent ids
    idx,              \* loop index into snapshot
    last,             \* history: the operation the last transition performed
    ext,              \* history: the number of apply() calls made from outside step()
    dw,               \* history: the run of consecutive dwindling ticks
    removed,          \* history: the agents the last upkeep removed, as they were before it
    donated,          \* history: agent id -> tick of its last GIVE that moved energy
    requested_at,     \* history: agent id -> tick of its last REQUEST action that left an entry
    ledger_log,       \* history: every ledger entry ever appended, in append order
    unreported,       \* history: the agents that began the running tick with a pending report
    began             \* history: agent id -> its position when the running (or last) step() began

vars == <<tick, agents, energy_grid, resource_grid, occupancy, reactor, deposit_reports,
          help_requests, helper_signals, aid_request_lifetime, help_signal_duration,
          pc, snapshot, idx, last, ext, dw, removed, donated, requested_at, ledger_log,
          unreported, began>>

-----------------------------------------------------------------------------
(* Configuration of the World instance under study (constructor arguments) *)

width == 3
height == 2
max_energy == 3
agent_energy_decay == 1
reactor_capacity == 4
reactor_initial_energy == 1
reactor_agent_reserve == 6
reactor_dwindle_rate == 2
reactor_consumption_rate == 1
aid_request_threshold == 5
aid_give_buffer == 1
aid_give_min_amount == 2
LedgerCap == 50

(* Bounds of the model *)
MaxTick == 3
MaxAgentEnergy == 11
MaxReports == 2
MaxExternal == 1
MaxApiTick == 1

AgentIdSeq == <<"A00", "A01">>    \* seed.py: ids are handed out in index order
AgentIds == {AgentIdSeq[i] : i \in DOMAIN AgentIdSeq}
GhostId == "Z99"
NoId == "None"
NoCap == -1                       \* Optional[int] None of Agent.max_capacity
LifetimeChoices == {-1, 1}       \* aid_request_lifetime: disabled, or one tick
SignalChoices == {-1, 1}         \* help_signal_duration: disabled, or one tick
\* the Agent objects the caller constructs: <<energy, max_capacity, vision_radius>>
AgentTemplates == {<<2, NoCap, 100>>, <<4, 6, 100>>, <<7, NoCap, 100>>, <<10, NoCap, 100>>}
Amounts == {-1, 0, 1, 3, 4}
Deltas == {-1, 0, 1}

-----------------------------------------------------------------------------
(* Arithmetic and sequence helpers *)

Max(a, b) == IF a >= b THEN a ELSE b
Min(a, b) == IF a <= b THEN a ELSE b
Abs(a) == IF a < 0 THEN -a ELSE a

Cells == (0 .. width - 1) \X (0 .. height - 1)

\* range(height) x range(width) in the order "for x ... for y" used by visible_energy
CellsByXY == [i \in 1 .. width * height |-> <<(i - 1) \div height, (i - 1) % height>>]
\* the order "for ny in range(height): for nx in range(width)" of _ensure_free_position
CellsByYX == [i \in 1 .. width * height |-> <<(i - 1) % width, (i - 1) \div width>>]

Pop(f, k) == [p \in DOMAIN f \ {k} |-> f[p]]
Put(f, k, v) == [p \in DOMAIN f \cup {k} |-> IF p = k THEN v ELSE f[p]]

RemoveAt(s, i) == [j \in 1 .. Len(s) - 1 |-> IF j < i THEN s[j] ELSE s[j + 1]]

Manhattan(p, q) == Abs(p[1] - q[1]) + Abs(p[2] - q[2])
\* mutant: every pair of cells counts as adjacent
ChebyshevNear(p, q) == 0

Chebyshev(p, q) == Max(Abs(p[1] - q[1]), Abs(p[2] - q[2]))

-----------------------------------------------------------------------------
(* models.py: Action *)

Kinds == {"MOVE", "GATHER", "DEPOSIT", "REPORT", "REQUEST", "GIVE"}

Action(kind, actor, dx, dy, amount, target) ==
    [kind |-> kind, actor |-> actor, dx |-> dx, dy |-> dy, amount |-> amount, target |-> target]

NoAction == Action("NONE", NoId, 0, 0, 0, NoId)
MoveAct(id, dx, dy) == Action("MOVE", id, dx, dy, 0, NoId)
GatherAct(id) == Action("GATHER", id, 0, 0, 0, NoId)
DepositAct(id, amount) == Action("DEPOSIT", id, 0, 0, amount, NoId)
ReportAct(id, amount) == Action("REPORT", id, 0, 0, amount, NoId)
RequestAct(id, amount) == Action("REQUEST", id, 0, 0, amount, NoId)
GiveAct(id, target, amount) == Action("GIVE", id, 0, 0, amount, target)

-----------------------------------------------------------------------------
(* The World object as a record *)

World ==
    [tick |-> tick, agents |-> agents, energy_grid |-> energy_grid,
     resource_grid |-> resource_grid, occupancy |-> occupancy, reactor |-> reactor,
     deposit_reports |-> deposit_reports, help_requests |-> help_requests,
     helper_signals |-> helper_signals, aid_request_lifetime |-> aid_request_lifetime,
     help_signal_duration |-> help_signal_duration]

Install(w) ==
    /\ tick' = w.tick
    /\ agents' = w.agents
    /\ energy_grid' = w.energy_grid
    /\ resource_grid' = w.resource_grid
    /\ occupancy' = w.occupancy
    /\ reactor' = w.reactor
    /\ deposit_reports' = w.deposit_reports
    /\ help_requests' = w.help_requests
    /\ helper_signals' = w.helper_signals
    /\ aid_request_lifetime' = w.aid_request_lifetime
    /\ help_signal_duration' = w.help_signal_duration

LiveIds(w) == {w.agents[i].id : i \in DOMAIN w.agents}
AgentIndex(w, id) == CHOOSE i \in DOMAIN w.agents : w.agents[i].id = id
Ag(w, id) == w.agents[AgentIndex(w, id)]
SetAg(w, id, rec) == [w EXCEPT !.agents[AgentIndex(w, id)] = rec]

RequestIndex(w, id) ==
    IF \E i \in DOMAIN w.help_requests : w.help_requests[i].id = id
    THEN CHOOSE i \in DOMAIN w.help_requests : w.help_requests[i].id = id
    ELSE 0
\* self.help_requests[id] = (position, amount, tick): an existing key keeps its place
PutRequest(w, id, position, amount, t) ==
    LET e == [id |-> id, position |-> position, amount |-> amount, tick |-> t]
        i == RequestIndex(w, id)
    IN  IF i = 0 THEN [w EXCEPT !.help_requests = Append(@, e)]
        ELSE [w EXCEPT !.help_requests[i] = e]
\* self.help_requests.pop(id, None)
PopRequest(w, id) ==
    LET i == RequestIndex(w, id)
    IN  IF i = 0 THEN w ELSE [w EXCEPT !.help_requests = RemoveAt(@, i)]

-----------------------------------------------------------------------------
(* reactor.py *)

IsFull(r) == r.energy >= r.capacity
IsEmpty(r) == r.energy <= 0

\* mutant: the accepted amount is not cut to the headroom
DepositAcceptedUncapped(r, amount) == IF amount <= 0 \/ IsFull(r) THEN 0 ELSE amount

\* the amount Reactor.deposit accepts (its return value)
DepositAccepted(r, amount) ==
    IF amount <= 0 \/ IsFull(r) THEN 0 ELSE Min(amount, r.capacity - r.energy)
ReactorDeposit(r, amount) == [r EXCEPT !.energy = @ + DepositAccepted(r, amount)]

\* the amount Reactor.draw removes (its return value)
DrawDrained(r, amount) == IF amount <= 0 THEN 0 ELSE Min(amount, r.energy)
ReactorDraw(r, amount) == [r EXCEPT !.energy = @ - DrawDrained(r, amount)]

-----------------------------------------------------------------------------
(* world.py: queries and helpers *)

Clamp(x, y) == <<Max(0, Min(width - 1, x)), Max(0, Min(height - 1, y))>>
InBounds(x, y) == 0 <= x /\ x < width /\ 0 <= y /\ y < height

Occupant(w, p) == IF p \in DOMAIN w.occupancy THEN w.occupancy[p] ELSE NoId
IsOccupied(w, p) == Occupant(w, p) # NoId

CellEnergy(w, x, y) == IF ~InBounds(x, y) THEN 0 ELSE w.energy_grid[<<x, y>>]

NoPos == <<-1, -1>>               \* stands for the RuntimeError of _ensure_free_position

\* mutant: no scan for a free cell, an occupied position raises at once
EnsureFreePositionNoScan(w, position) ==
    IF w.occupancy = <<>> \/ position \notin DOMAIN w.occupancy THEN position ELSE <<-1, -1>>

EnsureFreePosition(w, position) ==
    IF ~IsOccupied(w, position) THEN position
    ELSE LET free == SelectSeq(CellsByYX, LAMBDA c : ~IsOccupied(w, c))
         IN  IF Len(free) > 0 THEN free[1] ELSE NoPos

NoEntry == [id |-> NoId, position |-> NoPos, amount |-> 0, tick |-> 0]
\* _request_entry: the entry when it is live, NoEntry for None
RequestEntry(w, id) ==
    LET i == RequestIndex(w, id)
    IN  IF i = 0 THEN NoEntry
        ELSE LET e == w.help_requests[i]
             IN  IF e.amount <= 0 THEN NoEntry
                 ELSE IF id \notin LiveIds(w) THEN NoEntry
                 ELSE IF w.aid_request_lifetime > 0
                         /\ w.tick - e.tick > w.aid_request_lifetime THEN NoEntry
                 ELSE e

\* mutant: every call also drops the oldest entry
PruneHelpRequestsDropOldest(w) ==
    [w EXCEPT !.help_requests = IF @ = <<>> THEN @ ELSE Tail(@)]

PruneHelpRequests(w) ==
    [w EXCEPT !.help_requests = SelectSeq(@, LAMBDA e : RequestEntry(w, e.id) # NoEntry)]

\* active_help_requests: the world it leaves (pruned) and the dict it returns
ActiveHelpRequestsWorld(w) == PruneHelpRequests(w)
ActiveHelpRequests(w) ==
    LET wp == PruneHelpRequests(w)
        live == SelectSeq(wp.help_requests, LAMBDA e : RequestEntry(wp, e.id) # NoEntry)
    IN  [i \in 1 .. Len(live) |->
            [id |-> live[i].id, position |-> live[i].position, amount |-> live[i].amount]]

HasActiveRequest(w, id) == RequestEntry(PruneHelpRequests(w), id) # NoEntry

IsRecentHelper(w, id) ==
    IF id \notin DOMAIN w.helper_signals THEN FALSE
    ELSE w.tick - w.helper_signals[id] <= Max(0, w.help_signal_duration)

\* mutant: the move list also offers the diagonal steps
KING_MOVES ==
    << <<0, 0>>, <<1, 1>>, <<-1, 1>>, <<1, -1>>, <<-1, -1>>, <<1, 0>>, <<-1, 0>>, <<0, 1>>, <<0, -1>> >>

CARDINAL_MOVES == << <<0, 0>>, <<1, 0>>, <<-1, 0>>, <<0, 1>>, <<0, -1>> >>

AvailableMoves(w, id) ==
    LET p == Ag(w, id).position
        ok(m) == /\ InBounds(p[1] + m[1], p[2] + m[2])
                 /\ \/ m = <<0, 0>>
                    \/ Occupant(w, <<p[1] + m[1], p[2] + m[2]>>) = NoId
        moves == SelectSeq(CARDINAL_MOVES, ok)
    IN  IF Len(moves) > 0 THEN moves ELSE << <<0, 0>> >>

\* visible_energy: the cells of the Manhattan disk in scan order, each with its energy
VisibleEnergy(w, center, radius) ==
    LET inside == SelectSeq(CellsByXY, LAMBDA c : Manhattan(c, center) <= radius)
    IN  [i \in 1 .. Len(inside) |-> [pos |-> inside[i], energy |-> w.energy_grid[inside[i]]]]

-----------------------------------------------------------------------------
(* world.py: the help-request ledger *)

Threshold == Max(aid_request_threshold, agent_energy_decay)

CapacityHeadroom(a) == IF a.max_capacity = NoCap THEN NoCap ELSE Max(0, a.max_capacity - a.energy)

\* mutant: a later REQUEST adds to the amount already stored
RegisterHelpRequestAdditive(w, id, amount) ==
    LET a == Ag(w, id)
        desired_default == Max(0, Threshold - a.energy)
        headroom == CapacityHeadroom(a)
        request_cap == IF headroom = NoCap THEN Max(0, amount) ELSE Min(Max(0, amount), headroom)
        requested == Max(desired_default, request_cap)
        i == RequestIndex(w, id)
        earlier == IF i = 0 THEN 0 ELSE w.help_requests[i].amount
    IN  IF requested <= 0 THEN w
        ELSE PutRequest(w, id, a.position, earlier + requested, w.tick)

RegisterHelpRequest(w, id, amount) ==
    LET a == Ag(w, id)
        desired_default == Max(0, Threshold - a.energy)
        headroom == CapacityHeadroom(a)
        request_cap == IF headroom = NoCap THEN Max(0, amount) ELSE Min(Max(0, amount), headroom)
        requested == Max(desired_default, request_cap)
    IN  IF requested <= 0 THEN w
        ELSE PutRequest(w, id, a.position, requested, w.tick)

UpdateRequestPosition(w, id) ==
    LET i == RequestIndex(w, id)
    IN  IF i = 0 THEN w
        ELSE [w EXCEPT !.help_requests[i].position = Ag(w, id).position]

MaybeClearHelpRequest(w, id) ==
    LET i == RequestIndex(w, id)
        a == Ag(w, id)
    IN  IF i = 0 THEN w
        ELSE IF a.energy > Threshold THEN PopRequest(w, id)
        ELSE LET headroom == CapacityHeadroom(a)
                 shortfall0 == Max(0, Threshold - a.energy)
                 desired == IF headroom = NoCap THEN shortfall0 ELSE Min(shortfall0, headroom)
             IN  IF desired <= 0 THEN PopRequest(w, id)
                 ELSE PutRequest(w, id, w.help_requests[i].position, desired, w.tick)

ClearHelpRequest(w, id) == PopRequest(w, id)
CancelHelpRequest(w, id) == ClearHelpRequest(w, id)

DecayHelperSignals(w) ==
    IF w.help_signal_duration < 0 THEN w
    ELSE LET expiry == Max(0, w.help_signal_duration)
             keep == {a \in DOMAIN w.helper_signals : ~(w.tick - w.helper_signals[a] > expiry)}
         IN  [w EXCEPT !.helper_signals = [a \in keep |-> w.helper_signals[a]]]

-----------------------------------------------------------------------------
(* world.py: the actions of apply() *)

\* mutant: the deposit is not added to the agent's pending report
DepositEnergyUnrecorded(w, id) ==
    LET a == Ag(w, id)
        excess == Max(0, a.energy - reactor_agent_reserve)
        deposited == DepositAccepted(w.reactor, excess)
    IN  IF a.position # w.reactor.position \/ excess <= 0 \/ deposited <= 0 THEN w
        ELSE SetAg([w EXCEPT !.reactor = ReactorDeposit(w.reactor, excess)], id,
                   [a EXCEPT !.energy = @ - deposited])

\* mutant: the deposit offers all the agent's energy, not only the excess over the reserve
DepositEnergyBelowReserve(w, id) ==
    LET a == Ag(w, id)
        excess == Max(0, a.energy)
        deposited == DepositAccepted(w.reactor, excess)
    IN  IF a.position # w.reactor.position THEN w
        ELSE IF excess <= 0 THEN w
        ELSE IF deposited <= 0 THEN w
        ELSE SetAg([w EXCEPT !.reactor = ReactorDeposit(w.reactor, excess)], id,
                   [a EXCEPT !.energy = @ - deposited, !.pending_report = @ + deposited])

DepositEnergy(w, id) ==
    LET a == Ag(w, id)
        excess == Max(0, a.energy - reactor_agent_reserve)
        deposited == DepositAccepted(w.reactor, excess)
    IN  IF a.position # w.reactor.position THEN w
        ELSE IF excess <= 0 THEN w
        ELSE IF deposited <= 0 THEN w
        ELSE SetAg([w EXCEPT !.reactor = ReactorDeposit(w.reactor, excess)], id,
                   [a EXCEPT !.energy = @ - deposited, !.pending_report = @ + deposited])

AutoDeposit(w, id) ==
    IF Ag(w, id).position # w.reactor.position THEN w ELSE DepositEnergy(w, id)

\* mutant: the move ignores the occupant of the target cell
MoveAgentUnblocked(w, id, dx, dy) ==
    LET a == Ag(w, id)
        x == a.position[1]
        y == a.position[2]
        n == IF InBounds(x + dx, y + dy) THEN <<x + dx, y + dy>> ELSE Clamp(x + dx, y + dy)
    IN  IF n = a.position THEN w
        ELSE LET w1 == [w EXCEPT !.occupancy = Put(Pop(@, a.position), n, id)]
                 w2 == SetAg(w1, id, [a EXCEPT !.position = n])
             IN  AutoDeposit(UpdateRequestPosition(w2, id), id)

\* mutant: the move leaves the stored position of the mover's request behind
MoveAgentStaleRequest(w, id, dx, dy) ==
    LET a == Ag(w, id)
        x == a.position[1]
        y == a.position[2]
        n == IF InBounds(x + dx, y + dy) THEN <<x + dx, y + dy>> ELSE Clamp(x + dx, y + dy)
        occupant == Occupant(w, n)
    IN  IF n = a.position THEN w
        ELSE IF occupant # NoId /\ occupant # id THEN w
        ELSE LET w1 == [w EXCEPT !.occupancy = Put(Pop(@, a.position), n, id)]
                 w2 == SetAg(w1, id, [a EXCEPT !.position = n])
             IN  AutoDeposit(w2, id)

MoveAgent(w, id, dx, dy) ==
    LET a == Ag(w, id)
        x == a.position[1]
        y == a.position[2]
        n == IF InBounds(x + dx, y + dy) THEN <<x + dx, y + dy>> ELSE Clamp(x + dx, y + dy)
        occupant == Occupant(w, n)
    IN  IF n = a.position THEN w
        ELSE IF occupant # NoId /\ occupant # id THEN w
        ELSE LET w1 == [w EXCEPT !.occupancy = Put(Pop(@, a.position), n, id)]
                 w2 == SetAg(w1, id, [a EXCEPT !.position = n])
             IN  AutoDeposit(UpdateRequestPosition(w2, id), id)

\* mutant: the claimed amount is not floored at 0
RecordDepositReportUnfloored(w, id, amount) ==
    LET a == Ag(w, id)
        pending_before == a.pending_report
        actual == IF pending_before > 0 THEN Min(pending_before, amount) ELSE 0
        w1 == IF pending_before > 0
              THEN SetAg(w, id, [a EXCEPT !.pending_report = pending_before - actual])
              ELSE w
    IN  IF pending_before <= 0 /\ amount <= 0 THEN w
        ELSE [w1 EXCEPT !.deposit_reports =
                 Append(@, <<w.tick, id, actual, amount, amount # actual>>)]

\* mutant: over the cap the newest entry is dropped, not the oldest
RecordDepositReportEvictNewest(w, id, amount) ==
    LET a == Ag(w, id)
        pending_before == a.pending_report
        claimed == Max(0, amount)
        actual == IF pending_before > 0 THEN Min(pending_before, claimed) ELSE 0
        w1 == IF pending_before > 0
              THEN SetAg(w, id, [a EXCEPT !.pending_report = Max(0, pending_before - actual)])
              ELSE w
    IN  IF pending_before <= 0 /\ claimed <= 0 THEN w
        ELSE IF Len(w.deposit_reports) >= LedgerCap THEN w1
        ELSE [w1 EXCEPT !.deposit_reports =
                 Append(@, <<w.tick, id, actual, claimed, claimed # actual>>)]

\* mutant: a report is logged but the pending balance is not reduced
RecordDepositReportKeepsPending(w, id, amount) ==
    LET a == Ag(w, id)
        pending_before == a.pending_report
        claimed == Max(0, amount)
        actual == IF pending_before > 0 THEN Min(pending_before, claimed) ELSE 0
        logged == Append(w.deposit_reports, <<w.tick, id, actual, claimed, claimed # actual>>)
    IN  IF pending_before <= 0 /\ claimed <= 0 THEN w
        ELSE [w EXCEPT !.deposit_reports =
                 IF Len(logged) > LedgerCap THEN Tail(logged) ELSE logged]

RecordDepositReport(w, id, amount) ==
    LET a == Ag(w, id)
        pending_before == a.pending_report
        claimed == Max(0, amount)
        actual == IF pending_before > 0 THEN Min(pending_before, claimed) ELSE 0
        lie == claimed # actual
        w1 == IF pending_before > 0
              THEN SetAg(w, id, [a EXCEPT !.pending_report = Max(0, pending_before - actual)])
              ELSE w
        appended == Append(w1.deposit_reports, <<w.tick, id, actual, claimed, lie>>)
    IN  IF pending_before <= 0 /\ claimed <= 0 THEN w
        ELSE [w1 EXCEPT !.deposit_reports =
                 IF Len(appended) > LedgerCap THEN Tail(appended) ELSE appended]

\* mutant: the respawn may land on any cell
RespawnTargetsAnywhere(w, depleted) == Cells

\* the cells random.choice may return in _respawn_resource
RespawnTargets(w, depleted) ==
    LET candidates == {c \in Cells : ~w.resource_grid[c] /\ c # depleted}
    IN  IF candidates # {} THEN candidates ELSE {depleted}

\* mutant: the respawn sets the flag and leaves the cell's energy alone
RespawnResourceFlagOnly(w, target) ==
    [w EXCEPT !.resource_grid[target] = TRUE]

RespawnResource(w, target) ==
    [w EXCEPT !.resource_grid[target] = TRUE, !.energy_grid[target] = max_energy]

\* _deplete_resource: one world per outcome of the random respawn
DepleteResource(w, position) ==
    LET w1 == [w EXCEPT !.energy_grid[position] = 0, !.resource_grid[position] = FALSE]
    IN  {RespawnResource(w1, t) : t \in RespawnTargets(w1, position)}

GatherEnergy(w, id) ==
    LET a == Ag(w, id)
        available == CellEnergy(w, a.position[1], a.position[2])
        w1 == SetAg([w EXCEPT !.energy_grid[a.position] = 0], id,
                    [a EXCEPT !.energy = @ + available])
    IN  IF available <= 0 THEN {w}
        ELSE DepleteResource(MaybeClearHelpRequest(w1, id), a.position)

\* mutant: the minimum gift does not raise the desired transfer
DesiredTransferRaw(amount) == Max(0, amount)

DesiredTransfer(amount) == Max(Max(1, aid_give_min_amount), Max(0, amount))

GiveEnergy(w, donor_id, target_id, amount) ==
    IF target_id \notin LiveIds(w) \/ target_id = donor_id THEN w
    ELSE
    LET donor == Ag(w, donor_id)
        recipient == Ag(w, target_id)
        retain_floor == Max(0, reactor_agent_reserve)
        give_buffer == Max(0, aid_give_buffer)
        eligible_energy == donor.energy - (retain_floor + give_buffer)
        request_entry == RequestEntry(w, target_id)
        requested_remaining ==
            IF request_entry # NoEntry THEN request_entry.amount ELSE Max(0, amount)
        desired_transfer == DesiredTransfer(amount)
        capacity_room == CapacityHeadroom(recipient)
        limit3 == Min(eligible_energy, Min(desired_transfer, requested_remaining))
        transfer_capacity == IF capacity_room = NoCap THEN limit3 ELSE Min(limit3, capacity_room)
        w1 == SetAg(w, donor_id, [donor EXCEPT !.energy = @ - transfer_capacity])
        w2 == SetAg(w1, target_id, [recipient EXCEPT !.energy = @ + transfer_capacity])
        updated_amount == Max(0, request_entry.amount - transfer_capacity)
        w3 == IF request_entry = NoEntry THEN w2
              ELSE IF updated_amount > 0
                   THEN PutRequest(w2, target_id, recipient.position, updated_amount, w.tick)
                   ELSE ClearHelpRequest(w2, target_id)
        w4 == MaybeClearHelpRequest(w3, target_id)
    IN  IF Chebyshev(recipient.position, donor.position) > 1 THEN w
        ELSE IF eligible_energy <= 0 THEN w
        ELSE IF transfer_capacity <= 0 THEN w
        ELSE [w4 EXCEPT !.helper_signals = Put(@, donor_id, w.tick)]

\* apply(action): the set of worlds it can leave (one per random respawn target)
Apply(w, action) ==
    IF action.actor \notin LiveIds(w) THEN {w}
    ELSE IF action.kind = "MOVE" THEN {MoveAgent(w, action.actor, action.dx, action.dy)}
    ELSE IF action.kind = "GATHER" THEN GatherEnergy(w, action.actor)
    ELSE IF action.kind = "DEPOSIT" THEN {DepositEnergy(w, action.actor)}
    ELSE IF action.kind = "REPORT" THEN {RecordDepositReport(w, action.actor, action.amount)}
    ELSE IF action.kind = "REQUEST" THEN {RegisterHelpRequest(w, action.actor, action.amount)}
    ELSE IF action.kind = "GIVE" THEN {GiveEnergy(w, action.actor, action.target, action.amount)}
    ELSE {w}

-----------------------------------------------------------------------------
(* world.py: upkeep *)

\* mutant: the dwindled energy is not floored at 0
DwindleResourcesUnfloored(w, amount) ==
    IF amount <= 0 THEN w
    ELSE [w EXCEPT
            !.energy_grid = [c \in Cells |-> IF @[c] <= 0 THEN @[c] ELSE @[c] - amount],
            !.resource_grid = [c \in Cells |->
                IF w.energy_grid[c] > 0 /\ w.energy_grid[c] - amount <= 0 THEN FALSE ELSE @[c]]]

\* mutant: a cell dwindled to 0 keeps its resource flag
DwindleResourcesKeepFlag(w, amount) ==
    IF amount <= 0 THEN w
    ELSE [w EXCEPT
            !.energy_grid = [c \in Cells |-> IF @[c] <= 0 THEN @[c] ELSE Max(0, @[c] - amount)]]

DwindleResources(w, amount) ==
    IF amount <= 0 THEN w
    ELSE [w EXCEPT
            !.energy_grid = [c \in Cells |-> IF @[c] <= 0 THEN @[c] ELSE Max(0, @[c] - amount)],
            !.resource_grid = [c \in Cells |->
                IF w.energy_grid[c] > 0 /\ Max(0, w.energy_grid[c] - amount) <= 0
                THEN FALSE ELSE @[c]]]

ConsumeReactorEnergy(w) ==
    IF reactor_consumption_rate <= 0 THEN w
    ELSE [w EXCEPT !.reactor = ReactorDraw(@, reactor_consumption_rate)]

ApplyReactorConsequences(w) ==
    IF ~IsEmpty(w.reactor) THEN w ELSE DwindleResources(w, reactor_dwindle_rate)

RECURSIVE RemoveAgentsKeepRequests(_, _)
\* mutant: a removed agent's help request is left in the ledger
RemoveAgentsKeepRequests(w, to_remove) ==
    IF to_remove = <<>> THEN w
    ELSE LET id == Head(to_remove)
         IN  IF id \notin LiveIds(w) THEN RemoveAgentsKeepRequests(w, Tail(to_remove))
             ELSE LET a == Ag(w, id)
                      w1 == [w EXCEPT !.agents = RemoveAt(@, AgentIndex(w, id)),
                                      !.occupancy = Pop(@, a.position),
                                      !.helper_signals = Pop(@, id)]
                  IN  RemoveAgentsKeepRequests(w1, Tail(to_remove))

RECURSIVE RemoveAgentsKeepSignals(_, _)
\* mutant: a removed agent's helper signal is left in the map
RemoveAgentsKeepSignals(w, to_remove) ==
    IF to_remove = <<>> THEN w
    ELSE LET id == Head(to_remove)
         IN  IF id \notin LiveIds(w) THEN RemoveAgentsKeepSignals(w, Tail(to_remove))
             ELSE LET a == Ag(w, id)
                      w1 == [w EXCEPT !.agents = RemoveAt(@, AgentIndex(w, id)),
                                      !.occupancy = Pop(@, a.position)]
                  IN  RemoveAgentsKeepSignals(PopRequest(w1, id), Tail(to_remove))

RECURSIVE RemoveAgents(_, _)
\* the second loop of _decay_agent_energy over to_remove
RemoveAgents(w, to_remove) ==
    IF to_remove = <<>> THEN w
    ELSE LET id == Head(to_remove)
         IN  IF id \notin LiveIds(w) THEN RemoveAgents(w, Tail(to_remove))
             ELSE LET a == Ag(w, id)
                      w1 == [w EXCEPT !.agents = RemoveAt(@, AgentIndex(w, id)),
                                      !.occupancy = Pop(@, a.position),
                                      !.helper_signals = Pop(@, id)]
                  IN  RemoveAgents(PopRequest(w1, id), Tail(to_remove))

\* mutant: agents at energy 0 are left in the world
DecayAgentEnergyKeepDead(w) ==
    IF agent_energy_decay <= 0 THEN w
    ELSE [w EXCEPT !.agents = [i \in DOMAIN @ |->
                                  [@[i] EXCEPT !.energy = Max(0, @ - agent_energy_decay)]]]

DecayAgentEnergy(w) ==
    IF agent_energy_decay <= 0 THEN w
    ELSE LET decayed == [i \in DOMAIN w.agents |->
                            [w.agents[i] EXCEPT !.energy = Max(0, @ - agent_energy_decay)]]
             dead == SelectSeq(decayed, LAMBDA a : a.energy <= 0)
             to_remove == [i \in DOMAIN dead |-> dead[i].id]
         IN  RemoveAgents([w EXCEPT !.agents = decayed], to_remove)

-----------------------------------------------------------------------------
(* agent.py: Agent.choose *)

Sign(v) == IF v > 0 THEN 1 ELSE -1

InSeq(e, s) == \E i \in DOMAIN s : s[i] = e

\* the first element list.sort(key) puts in front: the least key, the earliest among equals
FirstLeast(s, Less(_, _)) ==
    s[CHOOSE i \in DOMAIN s :
        /\ \A j \in DOMAIN s : ~Less(s[j], s[i])
        /\ \A j \in 1 .. i - 1 : Less(s[i], s[j])]

\* best_move_towards; NoMove stands for None
NoMove == <<9, 9>>
BestMoveTowards(w, id, target) ==
    LET p == Ag(w, id).position
        moves == AvailableMoves(w, id)
        dx_total == target[1] - p[1]
        dy_total == target[2] - p[2]
        xstep == IF dx_total # 0 THEN << <<Sign(dx_total), 0>> >> ELSE <<>>
        ystep == IF dy_total # 0 THEN << <<0, Sign(dy_total)>> >> ELSE <<>>
        ordered_candidates ==
            IF Abs(dx_total) >= Abs(dy_total) THEN xstep \o ystep ELSE ystep \o xstep
        legal == SelectSeq(ordered_candidates, LAMBDA c : InSeq(c, moves))
        score(m) == Abs(p[1] + m[1] - target[1]) + Abs(p[2] + m[2] - target[2])
    IN  IF target = p THEN NoMove
        ELSE IF Len(legal) > 0 THEN legal[1]
        ELSE FirstLeast(moves, LAMBDA a, b : score(a) < score(b))

PolicyDecay == Max(1, agent_energy_decay)
PolicyReserve == Max(PolicyDecay, reactor_agent_reserve)
PolicyRequestThreshold == Max(PolicyDecay, aid_request_threshold)
PolicyGiveBuffer == Max(0, aid_give_buffer)
PolicyGiveMin == Max(1, aid_give_min_amount)

ShareableEnergy(a) == Max(0, a.energy - (PolicyReserve + PolicyGiveBuffer))

\* request_options of step 1, in the dict order of active_help_requests
RequestOptions(w, id) ==
    LET self == Ag(w, id)
    IN  SelectSeq(ActiveHelpRequests(w),
                  LAMBDA r : r.id # id /\ Manhattan(r.position, self.position) <= self.vision_radius)

\* request_options.sort(key=(manhattan, -need))[0]
SelectedRequest(w, id) ==
    LET p == Ag(w, id).position
    IN  FirstLeast(RequestOptions(w, id),
            LAMBDA a, b : \/ Manhattan(a.position, p) < Manhattan(b.position, p)
                          \/ /\ Manhattan(a.position, p) = Manhattan(b.position, p)
                             /\ a.amount > b.amount)

\* step 1: the action returned, or NoAction when the step falls through
\* mutant: step 1 falls through when the selected requester is not adjacent
AltruisticActionAdjacentOnly(w, id) ==
    LET self == Ag(w, id)
        shareable == ShareableEnergy(self)
    IN  IF ~(shareable >= PolicyGiveMin /\ Len(ActiveHelpRequests(w)) > 0) THEN NoAction
        ELSE IF Len(RequestOptions(w, id)) = 0 THEN NoAction
        ELSE LET r == SelectedRequest(w, id)
                 adjacency == Chebyshev(r.position, self.position)
                 transfer == Min(shareable, Max(PolicyGiveMin, r.amount))
             IN  IF adjacency <= 1
                 THEN IF transfer > 0 THEN GiveAct(id, r.id, transfer) ELSE NoAction
                 ELSE NoAction

AltruisticAction(w, id) ==
    LET self == Ag(w, id)
        shareable == ShareableEnergy(self)
    IN  IF ~(shareable >= PolicyGiveMin /\ Len(ActiveHelpRequests(w)) > 0) THEN NoAction
        ELSE IF Len(RequestOptions(w, id)) = 0 THEN NoAction
        ELSE LET r == SelectedRequest(w, id)
                 adjacency == Chebyshev(r.position, self.position)
                 transfer == Min(shareable, Max(PolicyGiveMin, r.amount))
                 move == BestMoveTowards(w, id, r.position)
             IN  IF adjacency <= 1
                 THEN IF transfer > 0 THEN GiveAct(id, r.id, transfer) ELSE NoAction
                 ELSE IF move # NoMove THEN MoveAct(id, move[1], move[2]) ELSE NoAction

\* reachable_entries of step 2: energy_spots that are reachable, in visible_energy order
ReachableSpots(w, id) ==
    LET self == Ag(w, id)
    IN  SelectSeq(VisibleEnergy(w, self.position, self.vision_radius),
            LAMBDA e : /\ e.energy > 0
                       /\ \/ Manhattan(e.pos, self.position) = 0
                          \/ self.energy > PolicyDecay * Manhattan(e.pos, self.position))

\* potential_helpers of step 2, in the dict order of world.agents
PotentialHelpers(w, id) ==
    LET self == Ag(w, id)
    IN  SelectSeq(w.agents,
            LAMBDA o : /\ o.id # id
                       /\ ~(o.energy - (PolicyReserve + PolicyGiveBuffer) < PolicyGiveMin)
                       /\ Manhattan(o.position, self.position) <= self.vision_radius)

\* step 2: the action returned, or NoAction when the step falls through.
\* The loop over reachable_entries returns in its first iteration: the first entry
\* either is the agent's own cell (energy > 0, so GATHER) or lies elsewhere (a move exists).
SelfSufficiencyAction(w, id, already_requested) ==
    LET self == Ag(w, id)
        p == self.position
        low_on_energy == self.energy <= PolicyRequestThreshold
        comfortable_level == PolicyReserve + PolicyGiveBuffer + PolicyGiveMin
        needs_energy == low_on_energy \/ self.energy < comfortable_level
        spots == ReachableSpots(w, id)
        spot == FirstLeast(spots,
                    LAMBDA a, b : \/ Manhattan(a.pos, p) < Manhattan(b.pos, p)
                                  \/ /\ Manhattan(a.pos, p) = Manhattan(b.pos, p)
                                     /\ a.energy > b.energy)
        spot_move == BestMoveTowards(w, id, spot.pos)
        request_amount == Max(0, PolicyRequestThreshold - self.energy)
        helpers == PotentialHelpers(w, id)
        helper == FirstLeast(helpers,
                    LAMBDA a, b : \/ Manhattan(a.position, p) < Manhattan(b.position, p)
                                  \/ /\ Manhattan(a.position, p) = Manhattan(b.position, p)
                                     /\ Chebyshev(a.position, p) < Chebyshev(b.position, p))
        helper_move == BestMoveTowards(w, id, helper.position)
    IN  IF ~needs_energy THEN NoAction
        ELSE IF Len(spots) > 0
        THEN IF Manhattan(spot.pos, p) = 0 /\ CellEnergy(w, p[1], p[2]) > 0 THEN GatherAct(id)
             ELSE MoveAct(id, spot_move[1], spot_move[2])
        ELSE IF request_amount > 0 /\ ~already_requested THEN RequestAct(id, request_amount)
        ELSE IF Len(helpers) > 0 /\ Chebyshev(helper.position, p) > 1 /\ helper_move # NoMove
        THEN MoveAct(id, helper_move[1], helper_move[2])
        ELSE NoAction

\* steps 3 to 6: resource return, opportunistic gather, random fallback (a set of actions)
ReturnActions(w, id) ==
    LET self == Ag(w, id)
        p == self.position
        moves == AvailableMoves(w, id)
        non_idle_moves == SelectSeq(moves, LAMBDA m : m # <<0, 0>>)
        excess_energy == Max(0, self.energy - PolicyReserve)
        reactor_move == BestMoveTowards(w, id, w.reactor.position)
        fallback_moves == IF Len(non_idle_moves) > 0 THEN non_idle_moves ELSE moves
    IN  IF ~IsFull(w.reactor) /\ excess_energy > 0 /\ p = w.reactor.position
        THEN {DepositAct(id, excess_energy)}
        ELSE IF ~IsFull(w.reactor) /\ excess_energy > 0 /\ reactor_move # NoMove
        THEN {MoveAct(id, reactor_move[1], reactor_move[2])}
        ELSE IF CellEnergy(w, p[1], p[2]) > 0 THEN {GatherAct(id)}
        ELSE {MoveAct(id, fallback_moves[i][1], fallback_moves[i][2]) : i \in DOMAIN fallback_moves}

\* the world Agent.choose leaves: the pruning of its queries and its cancel_request
ChooseWorld(w, id) ==
    LET self == Ag(w, id)
        wp == PruneHelpRequests(w)
        low_on_energy == self.energy <= PolicyRequestThreshold
    IN  IF self.pending_report > 0 THEN w
        ELSE IF HasActiveRequest(wp, id) /\ ~low_on_energy THEN CancelHelpRequest(wp, id)
        ELSE wp

\* the actions Agent.choose can return (one per outcome of random.choice)
\* mutant: the policy claims one more than its pending balance
ChooseOverReport(w, id) ==
    LET self == Ag(w, id)
        low_on_energy == self.energy <= PolicyRequestThreshold
        already_requested == HasActiveRequest(w, id) /\ low_on_energy
        step1 == AltruisticAction(w, id)
        wc == ChooseWorld(w, id)
        step2 == SelfSufficiencyAction(wc, id, already_requested)
    IN  IF self.pending_report > 0 THEN {ReportAct(id, self.pending_report + 1)}
        ELSE IF step1 # NoAction THEN {step1}
        ELSE IF step2 # NoAction THEN {step2}
        ELSE ReturnActions(wc, id)

Choose(w, id) ==
    LET self == Ag(w, id)
        low_on_energy == self.energy <= PolicyRequestThreshold
        already_requested == HasActiveRequest(w, id) /\ low_on_energy
        step1 == AltruisticAction(w, id)
        wc == ChooseWorld(w, id)
        step2 == SelfSufficiencyAction(wc, id, already_requested)
    IN  IF self.pending_report > 0 THEN {ReportAct(id, self.pending_report)}
        ELSE IF step1 # NoAction THEN {step1}
        ELSE IF step2 # NoAction THEN {step2}
        ELSE ReturnActions(wc, id)

-----------------------------------------------------------------------------
(* Construction: World.__post_init__ and Agent *)

ReactorCell == <<width \div 2, height \div 2>>

\* the resource cells random.random() < resource_density may produce
InitResourceLayouts ==
    {{}, {<<0, 0>>}, {<<0, 1>>, <<2, 0>>}, {<<1, 1>>, <<2, 1>>}, Cells}

ApiResourceLayouts == {{<<0, 0>>, <<2, 1>>}}

InitialWorld(layout, lifetime, duration) ==
    LET drawn == [c \in Cells |-> c \in layout]
    IN  [tick |-> 0,
         agents |-> <<>>,
         energy_grid |-> [c \in Cells |-> IF drawn[c] /\ c # ReactorCell THEN max_energy ELSE 0],
         resource_grid |-> [c \in Cells |-> drawn[c] /\ c # ReactorCell],
         occupancy |-> <<>>,
         reactor |-> [position |-> ReactorCell, capacity |-> reactor_capacity,
                      energy |-> Max(0, Min(reactor_initial_energy, reactor_capacity))],
         deposit_reports |-> <<>>,
         help_requests |-> <<>>,
         helper_signals |-> <<>>,
         aid_request_lifetime |-> lifetime,
         help_signal_duration |-> duration]

NewAgent(id, position, energy, max_capacity, vision_radius) ==
    [id |-> id, position |-> position, energy |-> energy, max_capacity |-> max_capacity,
     vision_radius |-> vision_radius, pending_action |-> NoAction, pending_report |-> 0]

\* add_agent; when _ensure_free_position raises the world is as before the call
AddAgentWorld(w, agent) ==
    LET clamped == Clamp(agent.position[1], agent.position[2])
        free == EnsureFreePosition(w, clamped)
        placed == [agent EXCEPT !.position = free]
    IN  IF free = NoPos THEN w
        ELSE [w EXCEPT !.agents = Append(@, placed), !.occupancy = Put(@, free, agent.id)]

\* add_agent raises: _ensure_free_position found no free cell
AddAgentRaises(w, agent) ==
    EnsureFreePosition(w, Clamp(agent.position[1], agent.position[2])) = NoPos

\* the label of a transition: what was done and for whom
Op(kind, actor) == [kind |-> kind, actor |-> actor]

NoDwindle == [run |-> 0, base |-> [c \in Cells |-> 0], touched |-> {}]

InitFrom(layouts, lifetimes, durations) ==
    /\ \E layout \in layouts, lifetime \in lifetimes, duration \in durations :
           /\ tick = InitialWorld(layout, lifetime, duration).tick
           /\ agents = InitialWorld(layout, lifetime, duration).agents
           /\ energy_grid = InitialWorld(layout, lifetime, duration).energy_grid
           /\ resource_grid = InitialWorld(layout, lifetime, duration).resource_grid
           /\ occupancy = InitialWorld(layout, lifetime, duration).occupancy
           /\ reactor = InitialWorld(layout, lifetime, duration).reactor
           /\ deposit_reports = InitialWorld(layout, lifetime, duration).deposit_reports
           /\ help_requests = InitialWorld(layout, lifetime, duration).help_requests
           /\ helper_signals = InitialWorld(layout, lifetime, duration).helper_signals
           /\ aid_request_lifetime = lifetime
           /\ help_signal_duration = duration
    /\ pc = "idle"
    /\ snapshot = <<>>
    /\ idx = 0
    /\ last = Op("INIT", NoId)
    /\ ext = 0
    /\ dw = NoDwindle
    /\ removed = {}
    /\ donated = <<>>
    /\ requested_at = <<>>
    /\ ledger_log = <<>>
    /\ unreported = {}
    /\ began = <<>>

Init == InitFrom(InitResourceLayouts, LifetimeChoices, SignalChoices)
InitApi == InitFrom(ApiResourceLayouts, {1}, {1})

-----------------------------------------------------------------------------
(* History of the dwindling run, kept beside the program state *)

Changed(w, w2) ==
    {c \in Cells : w.energy_grid[c] # w2.energy_grid[c] \/ w.resource_grid[c] # w2.resource_grid[c]}

\* a gather or respawn during a run marks the cells it rewrote
DwTouch(w, w2) ==
    dw' = IF dw.run = 0 THEN dw ELSE [dw EXCEPT !.touched = @ \cup Changed(w, w2)]

\* the emptiness check of a tick: w is the world after the draw
DwTick(w) ==
    dw' = IF ~IsEmpty(w.reactor) THEN NoDwindle
          ELSE IF dw.run = 0 THEN [run |-> 1, base |-> w.energy_grid, touched |-> {}]
          ELSE [dw EXCEPT !.run = @ + 1]

-----------------------------------------------------------------------------
(* History of removals, donations, requests and ledger appends *)

\* what apply(action) on w, leaving w2, adds to the history
Track(w, w2, action) ==
    LET acted == action.actor \in LiveIds(w)
        gave == /\ acted
                /\ action.kind = "GIVE"
                /\ Ag(w2, action.actor).energy < Ag(w, action.actor).energy
        asked == acted /\ action.kind = "REQUEST"
        created == /\ asked
                   /\ RequestIndex(w2, action.actor) # 0
                   /\ w2.help_requests[RequestIndex(w2, action.actor)].tick = w.tick
        reported == /\ acted
                    /\ action.kind = "REPORT"
                    /\ ~(Ag(w, action.actor).pending_report <= 0 /\ action.amount <= 0)
    IN  /\ donated' = IF gave THEN Put(donated, action.actor, w.tick) ELSE donated
        /\ requested_at' =
               IF ~asked THEN requested_at
               ELSE IF created THEN Put(requested_at, action.actor, w.tick)
               ELSE [k \in DOMAIN requested_at \ {action.actor} |-> requested_at[k]]
        /\ ledger_log' = IF reported
                         THEN Append(ledger_log, w2.deposit_reports[Len(w2.deposit_reports)])
                         ELSE ledger_log

\* the agents of w that upkeep drops on the way to w2
Removed(w, w2) ==
    {[id |-> w.agents[i].id, position |-> w.agents[i].position,
      signalled |-> w.agents[i].id \in DOMAIN w.helper_signals,
      requested |-> RequestIndex(w, w.agents[i].id) # 0] :
        i \in {j \in DOMAIN w.agents : w.agents[j].id \notin LiveIds(w2)}}

-----------------------------------------------------------------------------
(* Transitions *)

ApiPositions == {<<0, 0>>, ReactorCell, <<width, height>>}
ApiTemplates == {<<4, 6, 100>>, <<10, NoCap, 100>>}
StartPositions == {<<0, 0>>, <<width - 1, 0>>, ReactorCell, <<width, height>>}

\* seeding: add_agent of a fresh agent before the first tick
AddAgentFrom(positions, templates) ==
    /\ pc = "idle"
    /\ tick = 0
    /\ Len(agents) < Len(AgentIdSeq)
    /\ \E p \in positions, t \in templates :
           Install(AddAgentWorld(World, NewAgent(AgentIdSeq[Len(agents) + 1], p, t[1], t[2], t[3])))
    /\ last' = Op("ADD", AgentIdSeq[Len(agents) + 1])
    /\ UNCHANGED <<pc, snapshot, idx, ext, dw, removed, unreported, began, donated, requested_at, ledger_log>>

AddAgent == AddAgentFrom(StartPositions, AgentTemplates)
AddAgentApi == AddAgentFrom(ApiPositions, ApiTemplates)

\* step(): tick += 1, _prune_help_requests, _decay_helper_signals, the snapshot
StepBeginWorld(w) == DecayHelperSignals(PruneHelpRequests([w EXCEPT !.tick = @ + 1]))

StepBeginUpTo(max_tick) ==
    /\ pc = "idle"
    /\ tick < max_tick
    /\ Install(StepBeginWorld(World))
    /\ snapshot' = [i \in DOMAIN agents |-> agents[i].id]
    /\ pc' = IF Len(agents) = 0 THEN "upkeep" ELSE "decide"
    /\ idx' = 1
    /\ last' = Op("BEGIN", NoId)
    /\ removed' = {}
    /\ unreported' = {agents[i].id : i \in {j \in DOMAIN agents : agents[j].pending_report > 0}}
    /\ began' = [id \in {agents[i].id : i \in DOMAIN agents} |-> Ag(World, id).position]
    /\ UNCHANGED <<ext, dw, donated, requested_at, ledger_log>>

StepBegin == StepBeginUpTo(MaxTick)
StepBeginApi == StepBeginUpTo(MaxApiTick)

\* one iteration of the decision loop: _auto_deposit, choose, stash
DecideWorlds(w, id) ==
    LET w1 == AutoDeposit(w, id)
        w2 == ChooseWorld(w1, id)
    IN  {SetAg(w2, id, [Ag(w2, id) EXCEPT !.pending_action = act]) : act \in Choose(w1, id)}

Decide ==
    /\ pc = "decide"
    /\ \E w2 \in DecideWorlds(World, snapshot[idx]) : Install(w2)
    /\ last' = Op("DECIDE", snapshot[idx])
    /\ pc' = IF idx = Len(snapshot) THEN "apply" ELSE "decide"
    /\ idx' = IF idx = Len(snapshot) THEN 1 ELSE idx + 1
    /\ UNCHANGED <<snapshot, ext, dw, removed, unreported, began, donated, requested_at, ledger_log>>

\* one iteration of the apply loop: apply(agent.pending_action), clear the stash
ApplyPendingWorlds(w, id) ==
    LET action == Ag(w, id).pending_action
    IN  IF action = NoAction THEN {w}
        ELSE {SetAg(w2, id, [Ag(w2, id) EXCEPT !.pending_action = NoAction]) :
                 w2 \in Apply(w, action)}

ApplyPending ==
    /\ pc = "apply"
    /\ \E w2 \in ApplyPendingWorlds(World, snapshot[idx]) :
           /\ Install(w2)
           /\ DwTouch(World, w2)
           /\ Track(World, w2, Ag(World, snapshot[idx]).pending_action)
    /\ last' = Op(Ag(World, snapshot[idx]).pending_action.kind, snapshot[idx])
    /\ pc' = IF idx = Len(snapshot) THEN "upkeep" ELSE "apply"
    /\ idx' = IF idx = Len(snapshot) THEN 1 ELSE idx + 1
    /\ UNCHANGED <<snapshot, ext, removed, unreported, began>>

\* the end of step(): _decay_agent_energy, _consume_reactor_energy, _apply_reactor_consequences
\* mutant: the emptiness check runs before the draw
UpkeepWorldCheckFirst(w) == ConsumeReactorEnergy(ApplyReactorConsequences(DecayAgentEnergy(w)))

UpkeepWorld(w) == ApplyReactorConsequences(ConsumeReactorEnergy(DecayAgentEnergy(w)))

Upkeep ==
    /\ pc = "upkeep"
    /\ Install(UpkeepWorld(World))
    /\ DwTick(ConsumeReactorEnergy(DecayAgentEnergy(World)))
    /\ last' = Op("UPKEEP", NoId)
    /\ removed' = Removed(World, UpkeepWorld(World))
    /\ pc' = "idle"
    /\ snapshot' = <<>>
    /\ idx' = 0
    /\ UNCHANGED <<ext, donated, requested_at, ledger_log, unreported, began>>

\* apply(action) called between ticks with an action of the caller's making
WithinBounds(w) ==
    /\ \A i \in DOMAIN w.agents : w.agents[i].energy <= MaxAgentEnergy
    /\ Len(w.deposit_reports) <= MaxReports

ExternalActions ==
    {Action(k, a, dx, dy, amt, t) :
        k \in Kinds, a \in AgentIds \cup {GhostId}, dx \in Deltas, dy \in Deltas,
        amt \in Amounts, t \in AgentIds \cup {GhostId}}

\* the calls that differ in a parameter apply() reads
ApiCalls ==
    {action \in ExternalActions :
        /\ action.kind # "MOVE" => action.dx = 0 /\ action.dy = 0
        /\ action.kind \notin {"REPORT", "REQUEST", "GIVE"} => action.amount = 0
        /\ action.kind # "GIVE" => action.target = GhostId}

ExternalApply ==
    /\ pc = "idle"
    /\ ext < MaxExternal
    /\ ext' = ext + 1
    /\ \E action \in ApiCalls :
           /\ \E w2 \in Apply(World, action) :
                  /\ WithinBounds(w2)
                  /\ Install(w2)
                  /\ DwTouch(World, w2)
                  /\ Track(World, w2, action)
           /\ last' = Op(action.kind, action.actor)
    /\ UNCHANGED <<pc, snapshot, idx, removed, unreported, began>>

Next == AddAgent \/ StepBegin \/ Decide \/ ApplyPending \/ Upkeep

Spec == Init /\ [][Next]_vars

\* a long run on a bare grid, where donors live on to starve
MaxLongTick == 8
LongPositions == {<<0, 0>>, <<width - 1, 0>>}
LongTemplates == {<<2, NoCap, 100>>, <<10, NoCap, 100>>}
InitLong == InitFrom({{}}, {-1}, {-1, 1})
AddAgentLong == AddAgentFrom(LongPositions, LongTemplates)
StepBeginLong == StepBeginUpTo(MaxLongTick)

NextLong == AddAgentLong \/ StepBeginLong \/ Decide \/ ApplyPending \/ Upkeep

SpecLong == InitLong /\ [][NextLong]_vars

\* seeding until the grid is full, and once more
FillIdSeq == <<"A00", "A01", "A02", "A03", "A04", "A05", "A06">>
FillPositions == Cells \cup {<<width, height>>, <<-1, 0>>}
FillTemplate == <<10, NoCap, 100>>

FillAgent(id, p) == NewAgent(id, p, FillTemplate[1], FillTemplate[2], FillTemplate[3])

AddAgentFill ==
    /\ pc = "idle"
    /\ tick = 0
    /\ Len(agents) < Len(FillIdSeq)
    /\ \E p \in FillPositions :
           LET agent == FillAgent(FillIdSeq[Len(agents) + 1], p)
           IN  /\ Install(AddAgentWorld(World, agent))
               /\ last' = Op(IF AddAgentRaises(World, agent) THEN "ADD_RAISED" ELSE "ADD",
                              agent.id)
    /\ UNCHANGED <<pc, snapshot, idx, ext, dw, removed, unreported, began, donated, requested_at, ledger_log>>

InitFill == InitFrom({{}}, {-1}, {-1})

NextFill == AddAgentFill

SpecFill == InitFill /\ [][NextFill]_vars

\* a caller that deposits and reports again and again between ticks, past the ledger cap
MaxLedgerReports == 52
LedgerAmounts == <<1, 2, 3>>
InitLedger == InitFrom({{}}, {-1}, {-1})
AddAgentLedger == AddAgentFrom(ApiPositions, ApiTemplates)

LedgerCall ==
    /\ pc = "idle"
    /\ Len(agents) > 0
    /\ Len(ledger_log) < MaxLedgerReports
    /\ \E action \in {DepositAct(agents[1].id, 0),
                        ReportAct(agents[1].id,
                                  LedgerAmounts[(Len(ledger_log) % Len(LedgerAmounts)) + 1])} :
           /\ \E w2 \in Apply(World, action) :
                  /\ Install(w2)
                  /\ DwTouch(World, w2)
                  /\ Track(World, w2, action)
           /\ last' = Op(action.kind, action.actor)
    /\ UNCHANGED <<pc, snapshot, idx, ext, removed, unreported, began>>

NextLedger == AddAgentLedger \/ LedgerCall

SpecLedger == InitLedger /\ [][NextLedger]_vars

\* apply() called on a freshly seeded world, with no step() in between
NextCalls == AddAgentApi \/ ExternalApply

SpecCalls == InitApi /\ [][NextCalls]_vars

\* three agents on a bare grid: two can ask for help while a third can give
MaxTrioTick == 2
TrioIdSeq == <<"A00", "A01", "A02">>
TrioTemplates == {<<2, NoCap, 100>>, <<10, NoCap, 100>>}
InitTrio == InitFrom({{}}, {-1}, {-1})

AddAgentTrio ==
    /\ pc = "idle"
    /\ tick = 0
    /\ Len(agents) < Len(TrioIdSeq)
    /\ \E p \in Cells, t \in TrioTemplates :
           /\ ~IsOccupied(World, p)
           /\ Install(AddAgentWorld(World, NewAgent(TrioIdSeq[Len(agents) + 1], p, t[1], t[2], t[3])))
    /\ last' = Op("ADD", TrioIdSeq[Len(agents) + 1])
    /\ UNCHANGED <<pc, snapshot, idx, ext, dw, removed, unreported, began, donated, requested_at, ledger_log>>

StepBeginTrio == StepBeginUpTo(MaxTrioTick)

NextTrio == AddAgentTrio \/ StepBeginTrio \/ Decide \/ ApplyPending \/ Upkeep

SpecTrio == InitTrio /\ [][NextTrio]_vars

NextApi == AddAgentApi \/ StepBeginApi \/ Decide \/ ApplyPending \/ Upkeep \/ ExternalApply

SpecApi == InitApi /\ [][NextApi]_vars

-----------------------------------------------------------------------------
(* Properties *)

\* C1: the reactor's energy stays within [0, capacity] in every state step() reaches
C1_ReactorWithinCapacity ==
    /\ 0 <= reactor.energy
    /\ reactor.energy <= reactor.capacity

\* a deposit was cut to the reactor's headroom: the reactor is full and the depositor,
\* still on the reactor cell, keeps an excess above its reserve
C1_Witness ==
    /\ reactor.energy = reactor.capacity
    /\ \E i \in DOMAIN agents :
           /\ agents[i].position = reactor.position
           /\ agents[i].pending_report > 0
           /\ agents[i].energy > reactor_agent_reserve

\* C2: between calls (after add_agent, after step()) occupancy and agent positions agree:
\* every agent is recorded at its own cell, no two agents share a cell, no stale entry
C2_OccupancyConsistent ==
    pc = "idle" =>
        /\ \A i \in DOMAIN agents :
               /\ agents[i].position \in DOMAIN occupancy
               /\ occupancy[agents[i].position] = agents[i].id
        /\ \A i, j \in DOMAIN agents : i # j => agents[i].position # agents[j].position
        /\ \A p \in DOMAIN occupancy :
               \E i \in DOMAIN agents : agents[i].id = occupancy[p] /\ agents[i].position = p

\* a step() has run with two agents that now stand side by side
C2_Witness ==
    /\ pc = "idle"
    /\ tick > 0
    /\ Len(agents) = 2
    /\ Manhattan(agents[1].position, agents[2].position) = 1

\* C3: every cell's energy lies in [0, max_energy]
C3_CellEnergyBounded ==
    \A c \in Cells : 0 <= energy_grid[c] /\ energy_grid[c] <= max_energy

\* dwindling has cut one cell below max_energy while a respawned cell holds max_energy
C3_Witness ==
    /\ \E c \in Cells : 0 < energy_grid[c] /\ energy_grid[c] < max_energy
    /\ \E c \in Cells : energy_grid[c] = max_energy

\* C5: after step() every help request belongs to a live agent, asks for a positive
\* amount and, under a positive lifetime, is not older than the lifetime
C5_RequestsLive ==
    (pc = "idle" /\ tick > 0) =>
        \A i \in DOMAIN help_requests :
            /\ help_requests[i].id \in LiveIds(World)
            /\ help_requests[i].amount > 0
            /\ aid_request_lifetime > 0 => tick - help_requests[i].tick <= aid_request_lifetime

\* a request that has reached exactly its lifetime is still held after the step
C5_Witness ==
    /\ pc = "idle"
    /\ aid_request_lifetime > 0
    /\ \E i \in DOMAIN help_requests : tick - help_requests[i].tick = aid_request_lifetime

\* what Agent.choose reads of the agents: identity, energy, position, pending report
ObservedAgents ==
    [i \in DOMAIN agents |->
        <<agents[i].id, agents[i].energy, agents[i].position, agents[i].pending_report>>]

\* C4: within one step() all agents decide against the same world: once the first agent
\* of the snapshot has decided, no iteration of the decision loop changes the reactor,
\* an agent's energy, position or pending report, or the grid before the next agent
\* decides, and no iteration but the last changes the help-request map
C4_DecisionsShareSnapshot ==
    [][pc = "decide" =>
          /\ idx > 1 => /\ reactor' = reactor
                        /\ ObservedAgents' = ObservedAgents
                        /\ energy_grid' = energy_grid
                        /\ resource_grid' = resource_grid
          /\ idx < Len(snapshot) => help_requests' = help_requests]_vars

LastEntry(ledger) == ledger[Len(ledger)]

\* C6: a DEPOSIT crediting A followed at once by REPORT(A) of the same agent appends the
\* entry <<tick, agent, A, A, FALSE>> and leaves the agent's pending report as it was
\* before the deposit
C6_DepositThenReport ==
    \A i \in DOMAIN agents :
        LET id == agents[i].id
            w1 == DepositEnergy(World, id)
            A == w1.reactor.energy - reactor.energy
            w2 == RecordDepositReport(w1, id, A)
        IN  A > 0 =>
                /\ Len(w2.deposit_reports) = Min(LedgerCap, Len(deposit_reports) + 1)
                /\ LastEntry(w2.deposit_reports) = <<tick, id, A, A, FALSE>>
                /\ Ag(w2, id).pending_report = agents[i].pending_report

\* a REPORT has just credited in full what its agent had deposited
C6_Witness ==
    /\ last.kind = "REPORT"
    /\ Len(deposit_reports) > 0
    /\ LastEntry(deposit_reports)[2] = last.actor
    /\ LastEntry(deposit_reports)[3] > 0
    /\ LastEntry(deposit_reports)[3] = LastEntry(deposit_reports)[4]
    /\ LastEntry(deposit_reports)[5] = FALSE
    /\ last.actor \in LiveIds(World)
    /\ Ag(World, last.actor).pending_report = 0

\* the rule of REPORT for a claimed amount c against the pending balance of agent i
ReportRule(i, amount, c) ==
    LET id == agents[i].id
        p == agents[i].pending_report
        credited == IF p > 0 THEN Min(p, c) ELSE 0
        w2 == RecordDepositReport(World, id, amount)
    IN  IF p <= 0 /\ c <= 0 THEN w2 = World
        ELSE /\ Ag(w2, id).pending_report = p - credited
             /\ Len(w2.deposit_reports) = Min(LedgerCap, Len(deposit_reports) + 1)
             /\ LastEntry(w2.deposit_reports)[3] = credited
             /\ LastEntry(w2.deposit_reports)[5] = (c # credited)

\* C7 as stated: REPORT(claimed) credits min(p, claimed) when p > 0 and 0 otherwise, the
\* pending balance drops by the credited amount, the lie flag is set exactly when claimed
\* differs from the credited amount, and nothing happens when p <= 0 and claimed <= 0
C7_ReportAsStated ==
    \A i \in DOMAIN agents : \A amount \in Amounts : ReportRule(i, amount, amount)

\* C7 amended: the same rule holds of the claimed amount floored at 0
C7_ReportFloored ==
    \A i \in DOMAIN agents : \A amount \in Amounts : ReportRule(i, amount, Max(0, amount))

\* a REPORT has just claimed more than was pending: only the pending balance was
\* credited and the entry is flagged
C7_Witness ==
    /\ last.kind = "REPORT"
    /\ Len(deposit_reports) > 0
    /\ LastEntry(deposit_reports)[2] = last.actor
    /\ LastEntry(deposit_reports)[3] > 0
    /\ LastEntry(deposit_reports)[4] > LastEntry(deposit_reports)[3]
    /\ LastEntry(deposit_reports)[5] = TRUE

\* the amount the claim lets GIVE(amount) move from donor d to recipient r
GiveAmount(w, d, r, amount) ==
    LET spare == Ag(w, d).energy - (reactor_agent_reserve + aid_give_buffer)
        wanted == Max(aid_give_min_amount, amount)
        asked == IF RequestEntry(w, r) # NoEntry THEN RequestEntry(w, r).amount ELSE amount
        m3 == Min(spare, Min(wanted, asked))
    IN  IF Ag(w, r).max_capacity = NoCap THEN m3
        ELSE Min(m3, Ag(w, r).max_capacity - Ag(w, r).energy)

\* C8: GIVE to a distinct live target within Chebyshev distance 1 moves exactly the least
\* of the donor's spare energy, max(minGift, amount), the recipient's outstanding request
\* (else amount) and the recipient's headroom; nothing changes when that is <= 0
C8_GiveTransfersMinimum ==
    \A i, j \in DOMAIN agents : \A amount \in Amounts :
        (i # j /\ Chebyshev(agents[i].position, agents[j].position) <= 1) =>
            LET d == agents[i].id
                r == agents[j].id
                x == GiveAmount(World, d, r, amount)
                w2 == GiveEnergy(World, d, r, amount)
            IN  IF x <= 0 THEN w2 = World
                ELSE /\ Ag(w2, d).energy = agents[i].energy - x
                     /\ Ag(w2, r).energy = agents[j].energy + x

\* a GIVE has just moved energy: its donor carries this tick's helper signal
C8_Witness ==
    /\ last.kind = "GIVE"
    /\ last.actor \in DOMAIN helper_signals
    /\ helper_signals[last.actor] = tick

\* C9: GATHER on a cell with energy e > 0 adds e to the agent, empties the cell and clears
\* its flag, turns exactly one other cell that had no resource into a resource of
\* max_energy and leaves every other cell alone; GATHER on an empty cell changes nothing
C9_GatherDepletesAndRespawns ==
    \A i \in DOMAIN agents :
        LET id == agents[i].id
            at == agents[i].position
            e == energy_grid[at]
        IN  \A w2 \in GatherEnergy(World, id) :
                IF e <= 0 THEN w2 = World
                ELSE /\ Ag(w2, id).energy = agents[i].energy + e
                     /\ w2.energy_grid[at] = 0
                     /\ ~w2.resource_grid[at]
                     /\ \E t \in Cells \ {at} :
                            /\ ~resource_grid[t]
                            /\ w2.resource_grid[t]
                            /\ w2.energy_grid[t] = max_energy
                            /\ \A c \in Cells \ {at, t} :
                                   /\ w2.energy_grid[c] = energy_grid[c]
                                   /\ w2.resource_grid[c] = resource_grid[c]

\* a GATHER has just emptied the cell its agent stands on
C9_Witness ==
    /\ last.kind = "GATHER"
    /\ last.actor \in LiveIds(World)
    /\ Ag(World, last.actor).energy >= max_energy
    /\ energy_grid[Ag(World, last.actor).position] = 0
    /\ \E c \in Cells : energy_grid[c] = max_energy

\* C10: after k consecutive ticks that found the reactor empty, a cell no gather or
\* respawn has rewritten holds max(0, initial - k * reactor_dwindle_rate), and has lost
\* its resource flag if that is 0
C10_DwindleAfterKTicks ==
    dw.run > 0 =>
        \A c \in Cells \ dw.touched :
            /\ energy_grid[c] = Max(0, dw.base[c] - dw.run * reactor_dwindle_rate)
            /\ (dw.base[c] > 0 /\ energy_grid[c] = 0) => ~resource_grid[c]

\* two empty ticks in a row have drained a resource cell to the floor
C10_Witness ==
    /\ dw.run = 2
    /\ \E c \in Cells \ dw.touched :
           /\ dw.base[c] = max_energy
           /\ dw.base[c] - dw.run * reactor_dwindle_rate < 0
           /\ energy_grid[c] = 0

\* C11: after step() an agent the upkeep removed is unregistered everywhere: occupancy,
\* help requests and helper signals name live agents only, and its cell is free
C11_RemovedIsUnregistered ==
    (pc = "idle" /\ tick > 0) =>
        /\ \A p \in DOMAIN occupancy : occupancy[p] \in LiveIds(World)
        /\ \A i \in DOMAIN help_requests : help_requests[i].id \in LiveIds(World)
        /\ \A a \in DOMAIN helper_signals : a \in LiveIds(World)
        /\ \A r \in removed : r.id \notin LiveIds(World) /\ r.position \notin DOMAIN occupancy

\* the upkeep has just removed an agent that carried a helper signal
C11_Witness ==
    /\ pc = "idle"
    /\ \E r \in removed : r.signalled

\* C12: after step() no agent of the world has energy 0
C12_NoAgentAtZero ==
    (pc = "idle" /\ tick > 0) => \A i \in DOMAIN agents : agents[i].energy > 0

\* the upkeep has just removed a starved agent while another, at energy 1, lives on
C12_Witness ==
    /\ pc = "idle"
    /\ removed # {}
    /\ \E i \in DOMAIN agents : agents[i].energy = 1

\* C13: add_agent raises exactly when every cell is occupied, and then leaves the agents
\* and the occupancy map as they were; otherwise it registers the agent on an in-bounds
\* cell that was free before the call
C13_AddAgentFailsOnlyWhenFull ==
    \A p \in FillPositions :
        LET agent == FillAgent(GhostId, p)
            w2 == AddAgentWorld(World, agent)
            full == \A c \in Cells : c \in DOMAIN occupancy
        IN  /\ AddAgentRaises(World, agent) <=> full
            /\ IF AddAgentRaises(World, agent)
               THEN w2.agents = agents /\ w2.occupancy = occupancy
               ELSE LET placed == w2.agents[Len(w2.agents)]
                    IN  /\ Len(w2.agents) = Len(agents) + 1
                        /\ \A i \in DOMAIN agents : w2.agents[i] = agents[i]
                        /\ placed.id = GhostId
                        /\ InBounds(placed.position[1], placed.position[2])
                        /\ placed.position \notin DOMAIN occupancy
                        /\ w2.occupancy = Put(occupancy, placed.position, GhostId)

\* an add_agent on the full grid has just raised
C13_Witness ==
    /\ last.kind = "ADD_RAISED"
    /\ Len(agents) = width * height
    /\ \A c \in Cells : c \in DOMAIN occupancy

\* two cells more than one step apart in some direction
Apart(p, q) == Abs(p[1] - q[1]) > 1 \/ Abs(p[2] - q[2]) > 1

\* C14: apply() of an action whose actor is not in the world, and of a GIVE whose target
\* is missing, is the donor itself or is farther than Chebyshev distance 1, changes nothing
C14_InvalidActionsChangeNothing ==
    \A action \in ApiCalls :
        LET stale_actor == action.actor \notin LiveIds(World)
            bad_target ==
                /\ ~stale_actor
                /\ action.kind = "GIVE"
                /\ \/ action.target \notin LiveIds(World)
                   \/ action.target = action.actor
                   \/ Apart(Ag(World, action.actor).position, Ag(World, action.target).position)
        IN  (stale_actor \/ bad_target) => Apply(World, action) = {World}

\* a GIVE has just been applied for an actor that is not in the world, beside a rich
\* agent and a far one it could have served
C14_Witness ==
    /\ last.kind = "GIVE"
    /\ last.actor \notin LiveIds(World)
    /\ ext > 0
    /\ \E i, j \in DOMAIN agents :
           /\ Apart(agents[i].position, agents[j].position)
           /\ agents[i].energy > reactor_agent_reserve + aid_give_buffer

\* C15: a second active_help_requests() right after the first returns the same map
C15_ActiveRequestsIdempotent ==
    ActiveHelpRequests(ActiveHelpRequestsWorld(World)) = ActiveHelpRequests(World)

\* the decision phase, where the policy makes this call, with two requests active
C15_Witness ==
    /\ pc = "decide"
    /\ Len(ActiveHelpRequests(World)) = 2

\* C16: with a negative help_signal_duration an agent that has donated stays a recent
\* helper for as long as it lives; with a duration d >= 0 it is one exactly while
\* tick minus the tick of its last donation is at most d
C16_HelperSignalLifetime ==
    \A i \in DOMAIN agents :
        LET a == agents[i].id
            has_donated == a \in DOMAIN donated
        IN  IF help_signal_duration < 0
            THEN has_donated => IsRecentHelper(World, a)
            ELSE IsRecentHelper(World, a)
                     <=> (has_donated /\ tick - donated[a] <= help_signal_duration)

\* C17: the ledger never holds more than 50 entries and is always the most recent (up
\* to 50) appended entries in append order, oldest first
C17_LedgerKeepsLatestFifty ==
    LET n == Len(ledger_log)
        k == IF n < 50 THEN n ELSE 50
    IN  /\ Len(deposit_reports) <= 50
        /\ deposit_reports = [i \in 1 .. k |-> ledger_log[n - k + i]]

\* more than 50 reports have been appended and the oldest has been evicted
C17_Witness ==
    /\ Len(ledger_log) > 50
    /\ Len(deposit_reports) = 50
    /\ deposit_reports[1] # ledger_log[1]
    /\ deposit_reports[50] = ledger_log[Len(ledger_log)]

\* C18: a call of Agent.choose leaves the help requests, the agents, the reactor and the
\* grid as it found them
C18_ChooseIsPure ==
    pc = "decide" =>
        LET w1 == AutoDeposit(World, snapshot[idx])
            w2 == ChooseWorld(w1, snapshot[idx])
        IN  /\ w2.help_requests = w1.help_requests
            /\ w2.agents = w1.agents
            /\ w2.reactor = w1.reactor
            /\ w2.energy_grid = w1.energy_grid
            /\ w2.resource_grid = w1.resource_grid

\* the cell a stashed MOVE of agent record a aims at
MoveTarget(a) ==
    Clamp(a.position[1] + a.pending_action.dx, a.position[2] + a.pending_action.dy)

\* C19: when the stashed MOVEs of two agents aim at the same free cell, the apply phase
\* puts the agent earlier in the snapshot on the cell and leaves the later one where it
\* was, still recorded there in the occupancy map
C19_EarlierMoverWins ==
    (pc = "apply" /\ idx = 1 /\ Len(snapshot) = 2) =>
        LET a1 == Ag(World, snapshot[1])
            a2 == Ag(World, snapshot[2])
            conflict == /\ a1.pending_action.kind = "MOVE"
                        /\ a2.pending_action.kind = "MOVE"
                        /\ MoveTarget(a1) = MoveTarget(a2)
                        /\ MoveTarget(a1) \notin DOMAIN occupancy
        IN  conflict =>
                \A w1 \in ApplyPendingWorlds(World, a1.id) :
                    \A w2 \in ApplyPendingWorlds(w1, a2.id) :
                        /\ Ag(w2, a1.id).position = MoveTarget(a1)
                        /\ Occupant(w2, MoveTarget(a1)) = a1.id
                        /\ Ag(w2, a2.id).position = a2.position
                        /\ Occupant(w2, a2.position) = a2.id
                        /\ DOMAIN w2.occupancy = {MoveTarget(a1), a2.position}

\* the first agent has just moved onto the cell the second agent's stashed MOVE aims at
C19_Witness ==
    /\ pc = "apply"
    /\ idx = 2
    /\ Len(snapshot) = 2
    /\ last = Op("MOVE", snapshot[1])
    /\ Ag(World, snapshot[2]).pending_action.kind = "MOVE"
    /\ MoveTarget(Ag(World, snapshot[2])) = Ag(World, snapshot[1]).position
    /\ MoveTarget(Ag(World, snapshot[2])) # Ag(World, snapshot[2]).position

\* C20: with aid_request_lifetime = L > 0, a request created by a REQUEST action at tick t
\* (the requester's latest one) is no longer active at any tick later than t + L, whatever
\* the requester gathered or was given in between
C20_RequestExpires ==
    aid_request_lifetime > 0 =>
        \A id \in DOMAIN requested_at :
            tick > requested_at[id] + aid_request_lifetime =>
                /\ ~HasActiveRequest(World, id)
                /\ \A i \in DOMAIN ActiveHelpRequests(World) :
                       ActiveHelpRequests(World)[i].id # id

\* the request of agent id in w2 is gone, or holds the remaining shortfall (bounded by the
\* capacity headroom) and no more than the amount stored before
ShrunkOrCleared(w2, id, before) ==
    LET a == Ag(w2, id)
        i == RequestIndex(w2, id)
        shortfall == Max(0, Threshold - a.energy)
        headroom == CapacityHeadroom(a)
    IN  /\ a.energy > Threshold => i = 0
        /\ i # 0 =>
               /\ w2.help_requests[i].amount =
                      IF headroom = NoCap THEN shortfall ELSE Min(shortfall, headroom)
               /\ w2.help_requests[i].amount <= before

\* C21: a GATHER by, or a GIVE to, an agent with a live request removes the request
\* (always when the agent's energy now exceeds the aid threshold) or leaves it with the
\* remaining shortfall, never with more than was stored before the transfer
C21_TransferShrinksRequest ==
    \A id \in LiveIds(World) :
        RequestEntry(World, id) # NoEntry =>
            /\ \A w2 \in GatherEnergy(World, id) :
                   Ag(w2, id).energy > Ag(World, id).energy =>
                       ShrunkOrCleared(w2, id, RequestEntry(World, id).amount)
            /\ \A d \in LiveIds(World) \ {id}, amount \in Amounts :
                   LET w2 == GiveEnergy(World, d, id, amount)
                   IN  Ag(w2, id).energy > Ag(World, id).energy =>
                           ShrunkOrCleared(w2, id, RequestEntry(World, id).amount)

\* C22: in every reachable state the position stored in a help-request entry is the
\* current position of the requesting agent
C22_RequestFollowsRequester ==
    \A i \in DOMAIN help_requests :
        help_requests[i].id \in LiveIds(World) =>
            help_requests[i].position = Ag(World, help_requests[i].id).position

\* a lone agent holding a request made in an earlier tick has just moved by policy (with
\* nobody to block it the move took place), and the entry shows its new cell
C22_Witness ==
    /\ Len(agents) = 1
    /\ last = Op("MOVE", agents[1].id)
    /\ RequestIndex(World, agents[1].id) # 0
    /\ agents[1].id \in DOMAIN requested_at
    /\ requested_at[agents[1].id] < tick
    /\ help_requests[RequestIndex(World, agents[1].id)].position = agents[1].position

\* the amount REQUEST(amount) is to store for agent record a
RequestedAmount(a, amount) ==
    LET gap == IF Threshold - a.energy < 0 THEN 0 ELSE Threshold - a.energy
        asked == IF amount < 0 THEN 0 ELSE amount
        capped == IF a.max_capacity = NoCap THEN asked
                  ELSE IF asked <= Max(0, a.max_capacity - a.energy) THEN asked
                  ELSE Max(0, a.max_capacity - a.energy)
    IN  IF gap >= capped THEN gap ELSE capped

\* the entries of ledger s that belong to agent id
EntriesOf(s, id) == {i \in DOMAIN s : s[i].id = id}

\* C23: REQUEST(amount) stores for the agent the larger of its gap to the threshold and
\* the capacity-bounded amount, and nothing when that is <= 0; the agent has at most one
\* entry, a later REQUEST replaces the earlier amount, and other agents' entries stay
C23_RequestStoresMaximum ==
    /\ \A id \in LiveIds(World) : Cardinality(EntriesOf(help_requests, id)) <= 1
    /\ \A id \in LiveIds(World), amount \in Amounts :
           LET w2 == RegisterHelpRequest(World, id, amount)
               v == RequestedAmount(Ag(World, id), amount)
               mine == EntriesOf(w2.help_requests, id)
           IN  /\ v <= 0 => w2 = World
               /\ v > 0 =>
                      /\ Cardinality(mine) = 1
                      /\ \A i \in mine : w2.help_requests[i].amount = v
               /\ \A i \in DOMAIN help_requests :
                      help_requests[i].id # id =>
                          \E j \in DOMAIN w2.help_requests :
                              w2.help_requests[j] = help_requests[i]
               /\ Len(w2.help_requests) =
                      Len(help_requests) + (IF v > 0 /\ RequestIndex(World, id) = 0 THEN 1 ELSE 0)

\* a REQUEST has just been applied and the agent's single entry holds the amount the rule
\* gives for its energy, which is more than its gap to the threshold
C23_Witness ==
    /\ last.kind = "REQUEST"
    /\ last.actor \in LiveIds(World)
    /\ Cardinality(EntriesOf(help_requests, last.actor)) = 1
    /\ \A i \in EntriesOf(help_requests, last.actor) :
           /\ help_requests[i].tick = tick
           /\ help_requests[i].amount > Max(0, Threshold - Ag(World, last.actor).energy)

\* w2 is w after agent id deposited exactly n: the agent lost n, the reactor and the
\* agent's pending report gained n, and nothing else changed
ThreeWayTransfer(w, w2, id, n) ==
    /\ Ag(w2, id) = [Ag(w, id) EXCEPT !.energy = @ - n, !.pending_report = @ + n]
    /\ w2.reactor = [w.reactor EXCEPT !.energy = @ + n]
    /\ \A i \in DOMAIN w.agents : w.agents[i].id # id => w2.agents[i] = w.agents[i]
    /\ [w2 EXCEPT !.agents = w.agents, !.reactor = w.reactor] = w

\* C24: a DEPOSIT or an auto-deposit does nothing off the reactor cell; on it, the
\* accepted amount is min(energy - reserve, capacity - reactor energy) when positive, it
\* moves from the agent to the reactor and to the agent's pending report, and the agent
\* keeps at least the reserve
C24_DepositIsThreeWay ==
    \A id \in LiveIds(World) :
        LET a == Ag(World, id)
            n == Min(a.energy - reactor_agent_reserve, reactor.capacity - reactor.energy)
        IN  \A w2 \in {DepositEnergy(World, id), AutoDeposit(World, id)} :
                IF a.position = reactor.position /\ n > 0
                THEN /\ ThreeWayTransfer(World, w2, id, n)
                     /\ Ag(w2, id).energy >= reactor_agent_reserve
                ELSE w2 = World

\* a DEPOSIT has just been applied on the reactor cell: the depositor holds an unreported
\* balance, the reactor is above its initial level and the agent kept the reserve
C24_Witness ==
    /\ last.kind = "DEPOSIT"
    /\ last.actor \in LiveIds(World)
    /\ Ag(World, last.actor).position = reactor.position
    /\ Ag(World, last.actor).pending_report > 0
    /\ reactor.energy = reactor_initial_energy + Ag(World, last.actor).pending_report
    /\ Ag(World, last.actor).energy >= reactor_agent_reserve

\* grid g2/f2 is grid g/f with every cell's energy lowered by the dwindle rate, floored at
\* 0, and the resource flag dropped where a cell ran out
DwindledOnce(g, f, g2, f2) ==
    \A c \in Cells :
        /\ g2[c] = (IF g[c] - reactor_dwindle_rate < 0 THEN 0 ELSE g[c] - reactor_dwindle_rate)
        /\ f2[c] = (IF g[c] > 0 /\ g2[c] = 0 THEN FALSE ELSE f[c])

\* C25: the upkeep of a tick draws reactor_consumption_rate from the reactor and then
\* checks it: the resource field is dwindled exactly when the reactor holds 0 after the
\* draw, and is left alone when the tick ends with reactor energy > 0
C25_DwindleExactlyWhenEmptyAfterDraw ==
    pc = "upkeep" =>
        LET w2 == UpkeepWorld(World)
        IN  /\ w2.reactor.energy = Max(0, reactor.energy - reactor_consumption_rate)
            /\ w2.reactor.energy = 0 =>
                   DwindledOnce(energy_grid, resource_grid, w2.energy_grid, w2.resource_grid)
            /\ w2.reactor.energy > 0 =>
                   /\ w2.energy_grid = energy_grid
                   /\ w2.resource_grid = resource_grid

\* the first tick began with reactor energy <= the consumption rate and no deposit came:
\* its upkeep emptied the reactor and already dwindled a full resource cell
C25_Witness ==
    /\ last.kind = "UPKEEP"
    /\ tick = 1
    /\ reactor.energy = 0
    /\ dw.run = 1
    /\ \E c \in Cells :
           /\ dw.base[c] = max_energy
           /\ energy_grid[c] = max_energy - reactor_dwindle_rate

\* C26: driven by step() alone, every entry ever appended to the deposit ledger has
\* claimed = actual and a false lie flag, and a stashed REPORT still names exactly the
\* agent's pending balance when it is applied
C26_PolicyReportsTruthfully ==
    /\ \A i \in DOMAIN ledger_log :
           /\ ledger_log[i][3] = ledger_log[i][4]
           /\ ledger_log[i][5] = FALSE
    /\ \A i \in DOMAIN agents :
           agents[i].pending_action.kind = "REPORT" =>
               agents[i].pending_action.amount = agents[i].pending_report

\* a policy REPORT has just been applied and credited a positive deposit
C26_Witness ==
    /\ last.kind = "REPORT"
    /\ Len(ledger_log) > 0
    /\ ledger_log[Len(ledger_log)][2] = last.actor
    /\ ledger_log[Len(ledger_log)][3] > 0
    /\ ledger_log[Len(ledger_log)][1] = tick

\* request r comes before request o for a helper standing at p: nearer by Manhattan
\* distance, then the larger amount, then nearer by Chebyshev distance
NoWorseTarget(r, o, p) ==
    \/ Manhattan(r.position, p) < Manhattan(o.position, p)
    \/ /\ Manhattan(r.position, p) = Manhattan(o.position, p)
       /\ r.amount > o.amount
    \/ /\ Manhattan(r.position, p) = Manhattan(o.position, p)
       /\ r.amount = o.amount
       /\ Chebyshev(r.position, p) <= Chebyshev(o.position, p)

\* C27: in the altruistic step the policy targets the visible request of another agent
\* with the smallest Manhattan distance, among equals the larger amount, and among those
\* still tied the smaller Chebyshev distance
C27_NearestRequestSelected ==
    pc = "decide" =>
        LET id == snapshot[idx]
            w1 == AutoDeposit(World, id)
            self == Ag(w1, id)
            options == RequestOptions(w1, id)
        IN  (self.pending_report <= 0 /\ ShareableEnergy(self) >= PolicyGiveMin /\ Len(options) > 0) =>
                \A i \in DOMAIN options :
                    NoWorseTarget(SelectedRequest(w1, id), options[i], self.position)

\* the active requests of other agents that agent id sees in w
SeenRequests(w, id) ==
    {i \in DOMAIN ActiveHelpRequests(w) :
        /\ ActiveHelpRequests(w)[i].id # id
        /\ Manhattan(ActiveHelpRequests(w)[i].position, Ag(w, id).position)
               <= Ag(w, id).vision_radius}

\* step m takes agent id no farther from target, and nearer when a free cell next to
\* it is nearer
Towards(w, id, m, target) ==
    LET p == Ag(w, id).position
        after(d) == Manhattan(<<p[1] + d[1], p[2] + d[2]>>, target)
        free == {d \in {<<1, 0>>, <<-1, 0>>, <<0, 1>>, <<0, -1>>} :
                    /\ InBounds(p[1] + d[1], p[2] + d[2])
                    /\ ~IsOccupied(w, <<p[1] + d[1], p[2] + d[2]>>)}
    IN  /\ after(m) <= Manhattan(p, target)
        /\ (\E d \in free : after(d) < Manhattan(p, target)) => after(m) < Manhattan(p, target)

\* C28: an agent with a pending report always emits REPORT of exactly that balance;
\* otherwise an agent with spare energy >= the minimum gift that sees another agent's
\* request always emits GIVE of min(spare, max(minimum gift, requested)) to the selected
\* requester when it is adjacent, and otherwise a MOVE towards it (a step nearer when
\* one is free), never another kind of action
C28_StrictPriority ==
    pc = "decide" =>
        LET id == snapshot[idx]
            w1 == AutoDeposit(World, id)
            self == Ag(w1, id)
            spare == self.energy - reactor_agent_reserve - aid_give_buffer
            r == SelectedRequest(w1, id)
        IN  /\ self.pending_report > 0 =>
                   Choose(w1, id) = {ReportAct(id, self.pending_report)}
            /\ (self.pending_report <= 0 /\ spare >= aid_give_min_amount
                    /\ SeenRequests(w1, id) # {}) =>
                   \A act \in Choose(w1, id) :
                       IF Chebyshev(r.position, self.position) <= 1
                       THEN act = GiveAct(id, r.id, Min(spare, Max(aid_give_min_amount, r.amount)))
                       ELSE /\ act.kind = "MOVE"
                            /\ Towards(w1, id, <<act.dx, act.dy>>, r.position)

\* a helper with spare energy has just decided for a requester two cells away and stashed
\* a MOVE that brings it nearer
C28_Witness ==
    /\ last.kind = "DECIDE"
    /\ last.actor \in LiveIds(World)
    /\ Ag(World, last.actor).pending_action.kind = "MOVE"
    /\ Ag(World, last.actor).energy - reactor_agent_reserve - aid_give_buffer
           >= aid_give_min_amount
    /\ \E i \in DOMAIN help_requests :
           /\ help_requests[i].id # last.actor
           /\ Chebyshev(help_requests[i].position, Ag(World, last.actor).position) > 1
           /\ Manhattan(MoveTarget(Ag(World, last.actor)), help_requests[i].position)
                  < Manhattan(Ag(World, last.actor).position, help_requests[i].position)

RECURSIVE GiftRuns(_, _, _, _)
\* the totals agent r can have received from GIVE actions once the apply loop has run
\* from snapshot position i on world w, having received got so far
GiftRuns(w, i, r, got) ==
    IF i > Len(snapshot) THEN {got}
    ELSE LET giver == snapshot[i]
             gives == Ag(w, giver).pending_action.kind = "GIVE" /\ giver # r
         IN  UNION {GiftRuns(w2, i + 1, r,
                             got + (IF gives THEN Ag(w2, r).energy - Ag(w, r).energy ELSE 0)) :
                       w2 \in ApplyPendingWorlds(w, giver)}

\* C29: within one step() the energy a requester receives through GIVE actions is at most
\* the outstanding amount of its request at the start of the apply phase, however many
\* donors decided to give to it
C29_GiftsBoundedByRequest ==
    (pc = "apply" /\ idx = 1) =>
        \A r \in LiveIds(World) :
            RequestEntry(World, r) # NoEntry =>
                \A got \in GiftRuns(World, 1, r, 0) : got <= RequestEntry(World, r).amount

\* the apply loop of the running tick has passed agent id
Applied(id) ==
    \/ pc = "upkeep"
    \/ last.kind = "UPKEEP"
    \/ pc = "apply" /\ \E i \in DOMAIN snapshot : snapshot[i] = id /\ i < idx

\* C30: an agent that ended a tick with a positive pending report and is still alive has,
\* once its action of the next tick is applied, a pending report of 0 and an entry of that
\* tick in the ledger: no deposit stays unreported for more than one tick
C30_ReportedWithinOneTick ==
    \A id \in unreported \cap LiveIds(World) :
        Applied(id) =>
            /\ Ag(World, id).pending_report = 0
            /\ \E i \in DOMAIN ledger_log :
                   /\ ledger_log[i][1] = tick
                   /\ ledger_log[i][2] = id
                   /\ ledger_log[i][3] > 0

\* a tick has ended for a live agent that began it with a pending report
C30_Witness ==
    /\ last.kind = "UPKEEP"
    /\ unreported \cap LiveIds(World) # {}
    /\ \A id \in unreported \cap LiveIds(World) : Ag(World, id).pending_report = 0


-----------------------------------------------------------------------------
\* C31: in every reachable state a cell's resource flag is set exactly when
\* the cell's energy is greater than 0 (max_energy > 0): creation, gather and
\* deplete, respawn and dwindling keep the two grids in agreement.
C31_FlagIffEnergy ==
    max_energy > 0 => \A c \in Cells : resource_grid[c] <=> energy_grid[c] > 0

\* a dwindling run has emptied a resource cell and cleared its flag, while
\* another cell still holds a resource
C31_Witness ==
    /\ dw.run >= 1
    /\ \E c \in Cells : dw.base[c] > 0 /\ energy_grid[c] = 0 /\ ~resource_grid[c]
    /\ \E c \in Cells : resource_grid[c] /\ energy_grid[c] > 0

\* C32: an agent with a maximum capacity that starts with energy <=
\* max_capacity never holds more energy than max_capacity: no action (GATHER,
\* receiving a GIVE) raises its energy above the capacity.
C32_EnergyWithinCapacity ==
    \A i \in DOMAIN agents :
        agents[i].max_capacity # NoCap => agents[i].energy <= agents[i].max_capacity

\* C33: the reactor's home cell never holds a resource: in every reachable
\* state the cell at the reactor's position has energy 0 and its resource flag
\* cleared, also after a respawn triggered by a gather.
C33_ReactorCellBare ==
    energy_grid[reactor.position] = 0 /\ ~resource_grid[reactor.position]

\* C34: under the baseline policy one step() changes each agent's position by
\* at most one cell along a single axis (the Manhattan distance between its
\* positions before and after the step is <= 1), and the new position is
\* inside the grid. Stated for every point of the step and for its end.
C34_OneCellPerStep ==
    tick > 0 =>
        \A i \in DOMAIN agents :
            /\ agents[i].id \in DOMAIN began
            /\ Manhattan(agents[i].position, began[agents[i].id]) <= 1
            /\ InBounds(agents[i].position[1], agents[i].position[2])

\* a step() has ended in which one agent moved to a neighbouring cell and
\* another stayed where it was
C34_Witness ==
    /\ pc = "idle"
    /\ last.kind = "UPKEEP"
    /\ \E i \in DOMAIN agents : Manhattan(agents[i].position, began[agents[i].id]) = 1
    /\ \E i \in DOMAIN agents : agents[i].position = began[agents[i].id]

====
